---- MODULE Spec2Model ----
(***************************************************************************)
(* Person card data assembler: getPersonCardGraphData of                   *)
(* mgt-person-card.graph.ts, as a state machine.  Each slot of Slots runs  *)
(* one invocation at a time; the program counter of a slot sits at the     *)
(* awaits of the function (cache.getValue, batch.executeAll, getProfile,   *)
(* cache.putValue).  The cache store, the batch client and the api client  *)
(* are collaborators outside the file; they are modelled by their          *)
(* contracts: the store keeps one entry per key and stamps it with the     *)
(* time of the write, executeAll resolves with a map from request name to  *)
(* response or throws, getProfile resolves or throws.                      *)
(*                                                                         *)
(* Three families of runs are explored, told apart by `scope`:             *)
(*   "payload"     one invocation, every section configuration, every      *)
(*                 kind of entity and every shape of response, against a   *)
(*                 store as an earlier session left it;                    *)
(*   "interleave"  two invocations that overlap freely, for two entity     *)
(*                 ids, from an empty store, with plain responses;         *)
(*   "fair"        as "interleave" for one id, under fair scheduling.      *)
(***************************************************************************)
EXTENDS Integers, Sequences, FiniteSets, TLC

VARIABLES
    scope,            \* the family of runs explored (fixed by Init)
    sections,         \* MgtPersonCardConfig.sections (static configuration)
    usersInvalidationPeriod, \* CacheService.config.users.invalidationPeriod
    now,              \* Date.now()
    cache,            \* the cardState store: entity id -> entry or NoEntry
    pc,               \* per slot: the await the invocation is suspended at
    personDetails,    \* per slot: argument personDetails
    userId,           \* per slot: const userId (line 51)
    isMe,             \* per slot: argument isMe
    cardState,        \* per slot: const cardState (line 57)
    isContactOrGroup, \* per slot: const isContactOrGroup (line 63)
    batch,            \* per slot: the requests registered in const batch
    response,         \* per slot: let response (line 88)
    data,             \* per slot: const data (line 89)
    returned,         \* per slot: the value the promise resolved with
    path,             \* per slot: "none", "hit" or "miss" (history)
    threw,            \* per slot: the calls that threw (history)
    cacheReads,       \* per slot: cache.getValue calls of this invocation
    cacheWrites,      \* per slot: writes of the store by this invocation
    networkCalls,     \* per slot: sub-requests enqueued + profile fetches
    lastWriter        \* per id: slot whose putValue ran last (0: none)

vars == <<scope, sections, usersInvalidationPeriod, now, cache, pc,
          personDetails, userId, isMe, cardState, isContactOrGroup, batch, response,
          data, returned, path, threw, cacheReads, cacheWrites,
          networkCalls, lastWriter>>

----------------------------------------------------------------------------
(* Bounds of the model *)

\* Longest directReports array a response carries.
MaxReports == 2
\* Largest value of the clock.
MaxTime == 3
\* Most sub-requests of one batch whose entry deviates from a plain success.
MaxFailed == 1
\* CacheService.config.defaultInvalidationPeriod, in clock ticks.
DefaultInvalidationPeriod == 2

\* The invocations of one run, and the entity ids they are made for.
Slots == {1, 2}
Ids == {"u1", "u2"}

----------------------------------------------------------------------------
(* JavaScript values.  Every value is a record [t, v]: t is its shape, v    *)
(* the accountEnabled flags of the items when it is an array of reports.    *)

JS(t) == [t |-> t, v |-> <<>>]
Absent == JS("absent")          \* no such key / no such map entry
Undefined == JS("undefined")    \* key present, value undefined
Null == JS("null")
Object == JS("object")          \* an object without a value field
ErrorBody == JS("error")        \* the body of a failed sub-request
ValueNull == JS("valueNull")    \* an object { value: null }
Array(s) == [t |-> "array", v |-> s]
ValueArray(s) == [t |-> "valueArray", v |-> s]  \* an object { value: [...] }

BoundedSeq(S, n) == UNION {[1..m -> S] : m \in 0..n}

batchKeys == {"directReports", "files", "messages", "people", "person"}
StateKeys == batchKeys \cup {"profile"}

EmptyState == [k \in StateKeys |-> Absent]
NoEntry == [present |-> FALSE, state |-> EmptyState, timeCached |-> 0]
NoResponse == [defined |-> FALSE, entries |-> [k \in batchKeys |-> Absent]]

PersonTypes ==
    { [present |-> FALSE, class |-> "", subclass |-> ""],
      [present |-> TRUE, class |-> "Person", subclass |-> "OrganizationUser"],
      [present |-> TRUE, class |-> "Person", subclass |-> "PersonalContact"],
      [present |-> TRUE, class |-> "Group", subclass |-> "UnifiedGroup"] }
Mails == {"", "a@x.com"}
\* The entity references passed as personDetails: a user (neither field), a
\* group (a classification field), or a person with a personType.
PersonDetails(ids) ==
    { p \in [id : ids, mail : Mails, hasClassification : BOOLEAN,
             personType : PersonTypes] :
        p.hasClassification => ~p.personType.present }
NoPerson == [id |-> "", mail |-> "", hasClassification |-> FALSE,
             personType |-> [present |-> FALSE, class |-> "", subclass |-> ""]]

Sections ==
    { s \in [organization : BOOLEAN, showWorksWith : BOOLEAN,
             mailMessages : BOOLEAN, files : BOOLEAN, profile : BOOLEAN] :
        s.showWorksWith => s.organization }

----------------------------------------------------------------------------
(* Pure parts of the function *)

getCardStateInvalidationTime ==
    IF usersInvalidationPeriod # 0 THEN usersInvalidationPeriod
    ELSE DefaultInvalidationPeriod

\* graph.people's getEmailFromGraphEntity: the address of the entity, "" if
\* none can be derived.
getEmailFromGraphEntity(p) == p.mail

\* The comparison of line 59 the wrong way round.
IsFresh_Reversed(entry) ==
    entry.present /\ getCardStateInvalidationTime < now - entry.timeCached

\* Line 59: the entry read is present and younger than the period.
IsFresh(entry) ==
    entry.present /\ getCardStateInvalidationTime > now - entry.timeCached

\* Lines 63-66.
IsContactOrGroup(p) ==
    \/ p.hasClassification
    \/ /\ p.personType.present
       /\ \/ p.personType.subclass = "PersonalContact"
          \/ p.personType.class = "Group"

Request(name, resource) == [name |-> name, resource |-> resource]

\* The manager chain fetched by a request of its own.
buildOrgStructureRequest_Three(id) ==
    { Request("person", "users/{id}"),
      Request("manager", "users/{id}/manager"),
      Request("directReports", "users/{id}/directReports") }

buildOrgStructureRequest(id) ==
    { Request("person", "users/{id}?$expand=manager"),
      Request("directReports", "users/{id}/directReports") }

buildWorksWithRequest(id) == { Request("people", "users/{id}/people") }

buildMessagesWithUserRequest(emailAddress) ==
    { Request("messages", "me/messages?$search=from:{email}") }

buildFilesRequest(emailAddress) ==
    { Request("files", IF emailAddress # "" THEN "me/insights/shared"
                       ELSE "me/insights/used") }

\* Lines 68-86 with the works-with request outside the contact/group test.
BuildBatch_WorksWithForAll(p, me, cg) ==
    LET email == getEmailFromGraphEntity(p) IN
    (IF ~cg /\ sections.organization
       THEN buildOrgStructureRequest(p.id) ELSE {})
    \cup (IF sections.organization /\ sections.showWorksWith
            THEN buildWorksWithRequest(p.id) ELSE {})
    \cup (IF sections.mailMessages /\ email # ""
            THEN buildMessagesWithUserRequest(email) ELSE {})
    \cup (IF sections.files
            THEN buildFilesRequest(IF me THEN "" ELSE email) ELSE {})

\* Lines 68-86: the requests registered in the batch.
BuildBatch(p, me, cg) ==
    LET email == getEmailFromGraphEntity(p) IN
    (IF ~cg /\ sections.organization
       THEN buildOrgStructureRequest(p.id) \cup
            (IF sections.showWorksWith THEN buildWorksWithRequest(p.id) ELSE {})
       ELSE {})
    \cup (IF sections.mailMessages /\ email # ""
            THEN buildMessagesWithUserRequest(email) ELSE {})
    \cup (IF sections.files
            THEN buildFilesRequest(IF me THEN "" ELSE email) ELSE {})

Names(b) == { r.name : r \in b }

Truthy(x) == x.t \notin {"absent", "undefined", "null"}

\* content?.value
ValueOf(content) ==
    IF content.t = "valueArray" THEN Array(content.v)
    ELSE IF content.t = "valueNull" THEN Null
    ELSE Undefined

\* Line 99 without the value field: the content is stored as it is.
Extract_ContentOnly(content) == content

\* Line 99: value.content?.value || value.content
Extract(content) ==
    IF Truthy(ValueOf(content)) THEN ValueOf(content) ELSE content

\* Lines 96-101: every entry of the response map is stored under its name.
MergeResponse(d, resp) ==
    IF resp.defined
      THEN [k \in StateKeys |->
              IF k \in batchKeys /\ resp.entries[k] # Absent
                THEN Extract(resp.entries[k]) ELSE d[k]]
      ELSE d

accountEnabled(report) == report

\* Lines 115-117 filtering only arrays of more than one report.
FilterDirectReports_Longer(d) ==
    IF Truthy(d.directReports) /\ d.directReports.t = "array"
                               /\ Len(d.directReports.v) > 1
      THEN [d EXCEPT !.directReports = Array(SelectSeq(@.v, accountEnabled))]
      ELSE d

\* Lines 115-117.
FilterDirectReports(d) ==
    IF Truthy(d.directReports) /\ d.directReports.t = "array"
                               /\ Len(d.directReports.v) > 0
      THEN [d EXCEPT !.directReports = Array(SelectSeq(@.v, accountEnabled))]
      ELSE d

\* Lines 106-108.
SetProfile(d, profile) ==
    IF Truthy(profile) THEN [d EXCEPT !.profile = profile] ELSE d

\* Line 89 starting from the entry read instead of an empty record.
NewData_FromStale(stale) == stale.state

\* Line 89.
NewData(stale) == EmptyState

\* What cache.putValue stores: the record and the time of the write.
Entry(state, t) == [present |-> TRUE, state |-> state, timeCached |-> t]
\* The record handed back on a miss carries no timeCached.
NoTime == 0 - 1

----------------------------------------------------------------------------
(* The collaborators' answers *)

\* The content of a plain success for each request: the user for person, a
\* collection { value: [...] } for the others; only directReports items carry
\* accountEnabled flags that matter.
PlainContents(k) ==
    IF k = "person" THEN {Object}
    ELSE IF k = "directReports"
      THEN { ValueArray(s) : s \in BoundedSeq(BOOLEAN, MaxReports) }
    ELSE {ValueArray(<<>>)}

\* What a sub-request that did not plainly succeed leaves in the map: no
\* entry, an entry holding the error body, an entry without content, or a
\* payload whose value field is null.
Deviations == {Absent, ErrorBody, Undefined, ValueNull}

\* One map: the requests in `failed` deviate as `dev` says, the others
\* succeed plainly, directReports with the reports `reports`.
ResponseMap(names, failed, dev, reports) ==
    [defined |-> TRUE,
     entries |-> [k \in batchKeys |->
                    IF k \notin names THEN Absent
                    ELSE IF k \in failed THEN dev[k]
                    ELSE IF k = "directReports" THEN ValueArray(reports)
                    ELSE CHOOSE c \in PlainContents(k) : TRUE]]

\* The directReports arrays of a run, and how many sub-requests may deviate.
ReportsOf(sc) ==
    IF sc = "payload" THEN BoundedSeq(BOOLEAN, MaxReports)
    ELSE {<<FALSE>>, <<FALSE, TRUE>>}
FailedOf(sc) == IF sc = "payload" THEN MaxFailed ELSE 0

\* The maps batch.executeAll can resolve with for the requests `names`.
Responses(names) ==
    { ResponseMap(names, x.failed, x.dev, x.reports) :
        x \in UNION { [failed : {f}, dev : [f -> Deviations],
                       reports : ReportsOf(scope)] :
                      f \in { g \in SUBSET names :
                                Cardinality(g) <= FailedOf(scope) } } }

\* What getProfile can resolve with.
Profiles == {Object, Null}

---------------------------------------------------------------------------------------------------------------------------------------------------
(* State machine.  The arguments, batch and response are put back to their  *)
(* initial values at the step that reads them last: the code never reads    *)
(* them again.                                                              *)

IdsOf(sc) == IF sc = "interleave" THEN Ids ELSE {"u1"}

\* The section configurations of a run.
SectionsOf(sc) ==
    IF sc = "payload" THEN Sections
    ELSE { s \in Sections : /\ s.organization /\ s.showWorksWith
                            /\ s.mailMessages /\ s.files }

\* The values of users.invalidationPeriod: unset (0) or one tick.
PeriodsOf(sc) == IF sc = "payload" THEN {0} ELSE {0, 1}

\* The arguments a call is given.
Arguments(sc) ==
    IF sc = "payload" THEN PersonDetails(IdsOf(sc)) \X BOOLEAN
    ELSE { p \in PersonDetails(IdsOf(sc)) :
             /\ p.mail # ""
             /\ p.personType.subclass \in {"", "PersonalContact"} } \X {FALSE}

\* Records an earlier session may have left in the persistent store.
StoredStates ==
    { EmptyState,
      [EmptyState EXCEPT !.person = Object, !.directReports = Array(<<TRUE>>),
                         !.profile = Object] }

InitWith(sc, entries) ==
    /\ scope = sc
    /\ sections \in SectionsOf(sc)
    /\ usersInvalidationPeriod \in PeriodsOf(sc)
    /\ now = 0
    /\ cache \in [Ids -> entries]
    /\ pc = [i \in Slots |-> "idle"]
    /\ personDetails = [i \in Slots |-> NoPerson]
    /\ userId = [i \in Slots |-> ""]
    /\ isMe = [i \in Slots |-> FALSE]
    /\ cardState = [i \in Slots |-> NoEntry]
    /\ isContactOrGroup = [i \in Slots |-> FALSE]
    /\ batch = [i \in Slots |-> {}]
    /\ response = [i \in Slots |-> NoResponse]
    /\ data = [i \in Slots |-> EmptyState]
    /\ returned = [i \in Slots |-> NoEntry]
    /\ path = [i \in Slots |-> "none"]
    /\ threw = [i \in Slots |-> {}]
    /\ cacheReads = [i \in Slots |-> 0]
    /\ cacheWrites = [i \in Slots |-> 0]
    /\ networkCalls = [i \in Slots |-> 0]
    /\ lastWriter = [k \in Ids |-> 0]

\* One invocation in full detail, the store as an earlier session left it.
Init ==
    /\ InitWith("payload", {NoEntry} \cup {Entry(d, 0) : d \in StoredStates})
    /\ cache["u2"] = NoEntry

\* Overlapping invocations from an empty store.
InitInterleave == InitWith("interleave", {NoEntry})

static == <<scope, sections, usersInvalidationPeriod>>

Tick ==
    /\ now < MaxTime
    /\ now' = now + 1
    /\ UNCHANGED <<static, cache, pc, personDetails, userId, isMe, cardState,
                   isContactOrGroup, batch, response, data, returned, path,
                   threw, cacheReads, cacheWrites, networkCalls,
                   lastWriter>>

\* Whether slot i may take a call: each slot runs one invocation, and a
\* payload run has one invocation only.
MayCall(i) == pc[i] = "idle" /\ (scope = "payload" => i = 1)

\* Lines 46-57: the call, up to the await of cache.getValue(userId); the
\* read of the store is taken at the call.
Call(i) ==
    /\ MayCall(i)
    /\ \E a \in Arguments(scope) :
         /\ personDetails' = [personDetails EXCEPT ![i] = a[1]]
         /\ userId' = [userId EXCEPT ![i] = a[1].id]
         /\ isMe' = [isMe EXCEPT ![i] = a[2]]
         /\ cardState' = [cardState EXCEPT ![i] = cache[a[1].id]]
    /\ pc' = [pc EXCEPT ![i] = "getValue"]
    /\ cacheReads' = [cacheReads EXCEPT ![i] = @ + 1]
    /\ UNCHANGED <<static, now, cache, isContactOrGroup, batch, response,
                   data, returned, path, threw, cacheWrites, networkCalls,
                   lastWriter>>

\* Lines 59-61: the entry read is fresh and is returned.
CacheHit(i) ==
    /\ pc[i] = "getValue"
    /\ IsFresh(cardState[i])
    /\ returned' = [returned EXCEPT ![i] = cardState[i]]
    /\ path' = [path EXCEPT ![i] = "hit"]
    /\ pc' = [pc EXCEPT ![i] = "done"]
    /\ personDetails' = [personDetails EXCEPT ![i] = NoPerson]
    /\ isMe' = [isMe EXCEPT ![i] = FALSE]
    /\ UNCHANGED <<static, now, cache, userId, cardState, isContactOrGroup,
                   batch, response, data, threw, cacheReads, cacheWrites,
                   networkCalls, lastWriter>>

\* Lines 59-91: no fresh entry; the batch is assembled and executeAll called.
CacheMiss(i) ==
    /\ pc[i] = "getValue"
    /\ ~IsFresh(cardState[i])
    /\ LET cg == IsContactOrGroup(personDetails[i])
           b == BuildBatch(personDetails[i], isMe[i], cg)
       IN /\ isContactOrGroup' = [isContactOrGroup EXCEPT ![i] = cg]
          /\ batch' = [batch EXCEPT ![i] = b]
          /\ networkCalls' = [networkCalls EXCEPT ![i] = @ + Cardinality(b)]
    /\ data' = [data EXCEPT ![i] = NewData(cardState[i])]
    /\ path' = [path EXCEPT ![i] = "miss"]
    /\ pc' = [pc EXCEPT ![i] = "executeAll"]
    /\ UNCHANGED <<static, now, cache, personDetails, userId, isMe, cardState,
                   response, returned, threw, cacheReads, cacheWrites,
                   lastWriter>>

\* Line 91: executeAll resolves with a map.
ExecuteAllResolves(i) ==
    /\ pc[i] = "executeAll"
    /\ \E r \in Responses(Names(batch[i])) :
         response' = [response EXCEPT ![i] = r]
    /\ pc' = [pc EXCEPT ![i] = "merge"]
    /\ batch' = [batch EXCEPT ![i] = {}]
    /\ personDetails' = [personDetails EXCEPT ![i] = NoPerson]
    /\ isMe' = [isMe EXCEPT ![i] = FALSE]
    /\ UNCHANGED <<static, now, cache, userId, cardState,
                   isContactOrGroup, data, returned, path, threw,
                   cacheReads, cacheWrites, networkCalls, lastWriter>>

\* Line 91 without the try: the exception leaves the function.
ExecuteAllCatch_Rethrow == "rejected"

\* Lines 92-94: where control goes when executeAll throws: the catch is
\* empty and the function goes on at the merge.
ExecuteAllCatch == "merge"

\* Lines 92-94: executeAll throws; response stays undefined.
ExecuteAllThrows(i) ==
    /\ pc[i] = "executeAll"
    /\ response' = [response EXCEPT ![i] = NoResponse]
    /\ threw' = [threw EXCEPT ![i] = @ \cup {"executeAll"}]
    /\ pc' = [pc EXCEPT ![i] = ExecuteAllCatch]
    /\ batch' = [batch EXCEPT ![i] = {}]
    /\ personDetails' = [personDetails EXCEPT ![i] = NoPerson]
    /\ isMe' = [isMe EXCEPT ![i] = FALSE]
    /\ UNCHANGED <<static, now, cache, userId, cardState,
                   isContactOrGroup, data, returned, path,
                   cacheReads, cacheWrites, networkCalls, lastWriter>>

\* Line 103: whether the profile is fetched.
FetchesProfile(cg) == ~cg /\ sections.profile

\* Lines 96-105: the entries are copied into data; getProfile is called when
\* the entity is a user and the profile section is on.
Merge(i) ==
    /\ pc[i] = "merge"
    /\ data' = [data EXCEPT ![i] = MergeResponse(@, response[i])]
    /\ response' = [response EXCEPT ![i] = NoResponse]
    /\ IF FetchesProfile(isContactOrGroup[i])
         THEN /\ pc' = [pc EXCEPT ![i] = "getProfile"]
              /\ networkCalls' = [networkCalls EXCEPT ![i] = @ + 1]
         ELSE /\ pc' = [pc EXCEPT ![i] = "filter"]
              /\ UNCHANGED networkCalls
    /\ UNCHANGED <<static, now, cache, personDetails, userId, isMe, cardState,
                   isContactOrGroup, batch, returned, path,
                   threw, cacheReads, cacheWrites, lastWriter>>

\* Lines 105-108: getProfile resolves.
GetProfileResolves(i) ==
    /\ pc[i] = "getProfile"
    /\ \E profile \in Profiles :
         data' = [data EXCEPT ![i] = SetProfile(@, profile)]
    /\ pc' = [pc EXCEPT ![i] = "filter"]
    /\ UNCHANGED <<static, now, cache, personDetails, userId, isMe, cardState,
                   isContactOrGroup, batch, response, returned, path,
                   threw, cacheReads, cacheWrites, networkCalls,
                   lastWriter>>

\* Lines 109-111 with a catch that starts the record over.
ProfileCatch_Reset(d) == EmptyState

\* Lines 109-111: the catch of the profile fetch is empty: data is as it
\* was.
ProfileCatch(d) == d

\* Lines 109-111: getProfile throws.
GetProfileThrows(i) ==
    /\ pc[i] = "getProfile"
    /\ data' = [data EXCEPT ![i] = ProfileCatch(@)]
    /\ threw' = [threw EXCEPT ![i] = @ \cup {"getProfile"}]
    /\ pc' = [pc EXCEPT ![i] = "filter"]
    /\ UNCHANGED <<static, now, cache, personDetails, userId, isMe, cardState,
                   isContactOrGroup, batch, response, returned, path,
                   cacheReads, cacheWrites, networkCalls, lastWriter>>

\* Lines 114-119: the filter, then the call of cache.putValue(userId, data).
Filter(i) ==
    /\ pc[i] = "filter"
    /\ data' = [data EXCEPT ![i] = FilterDirectReports(@)]
    /\ pc' = [pc EXCEPT ![i] = "putValue"]
    /\ UNCHANGED <<static, now, cache, personDetails, userId, isMe, cardState,
                   isContactOrGroup, batch, response, returned, path,
                   threw, cacheReads, cacheWrites, networkCalls, lastWriter>>

\* Line 119 writing under one fixed key.
PutKey_Fixed(i) == "u1"

\* Line 119 writing the record over the entry the store holds, key by key.
PutEntry_Merged(i) ==
    Entry([k \in StateKeys |->
             IF data[i][k] = Absent THEN cache[userId[i]].state[k]
             ELSE data[i][k]], now)

\* The key and the entry of the write of line 119.
PutKey(i) == userId[i]
PutEntry(i) == Entry(data[i], now)

\* cache.putValue takes effect: the store holds the record under the id.
PutValue(i) ==
    /\ pc[i] = "putValue"
    /\ cache' = [cache EXCEPT ![PutKey(i)] = PutEntry(i)]
    /\ lastWriter' = [lastWriter EXCEPT ![PutKey(i)] = i]
    /\ cacheWrites' = [cacheWrites EXCEPT ![i] = @ + 1]
    /\ pc' = [pc EXCEPT ![i] = "return"]
    /\ UNCHANGED <<static, now, personDetails, userId, isMe, cardState,
                   isContactOrGroup, batch, response, data, returned, path,
                   threw, cacheReads, networkCalls>>

\* Line 121.
Return(i) ==
    /\ pc[i] = "return"
    /\ returned' = [returned EXCEPT ![i] = Entry(data[i], NoTime)]
    /\ pc' = [pc EXCEPT ![i] = "done"]
    /\ UNCHANGED <<static, now, cache, personDetails, userId, isMe, cardState,
                   isContactOrGroup, batch, response, data, path, threw,
                   cacheReads, cacheWrites, networkCalls, lastWriter>>

Step(i) ==
    \/ Call(i)
    \/ CacheHit(i)
    \/ CacheMiss(i)
    \/ ExecuteAllResolves(i)
    \/ ExecuteAllThrows(i)
    \/ Merge(i)
    \/ GetProfileResolves(i)
    \/ GetProfileThrows(i)
    \/ Filter(i)
    \/ PutValue(i)
    \/ Return(i)

Next == Tick \/ \E i \in Slots : Step(i)

Spec == Init /\ [][Next]_vars
SpecInterleave == InitInterleave /\ [][Next]_vars

\* The event loop runs the continuation of every await once the awaited
\* promise has settled, and every collaborator settles its promise.
Continue(i) ==
    \/ CacheHit(i)
    \/ CacheMiss(i)
    \/ ExecuteAllResolves(i)
    \/ ExecuteAllThrows(i)
    \/ Merge(i)
    \/ GetProfileResolves(i)
    \/ GetProfileThrows(i)
    \/ Filter(i)
    \/ PutValue(i)
    \/ Return(i)

\* Overlapping invocations for one entity, from an empty store.
InitFair == InitWith("fair", {NoEntry})

FairSpec == InitFair /\ [][Next]_vars /\ \A i \in Slots : WF_vars(Continue(i))

----------------------------------------------------------------------------
(* Vocabulary of the properties *)

Age(entry) == now - entry.timeCached

\* The entity is a contact or a group (section 3 of the data model).
ContactOrGroup(p) ==
    \/ p.hasClassification
    \/ p.personType.present /\ p.personType.subclass = "PersonalContact"
    \/ p.personType.present /\ p.personType.class = "Group"

\* The reports of a stored value, whichever way it carries them.
DisabledIn(x) == { j \in 1..Len(x.v) : x.v[j] = FALSE }
NoDisabledReports(state) == DisabledIn(state.directReports) = {}

Started(i) == pc[i] # "idle"
Finished(i) == pc[i] = "done"

\* Slot i takes the step that leaves the await `at`.
Leaves(i, at) == pc[i] = at /\ pc'[i] # at

----------------------------------------------------------------------------
(* C1 *)

\* C1: when the entry read under the entity id is younger than the
\* invalidation period, the invocation returns exactly that entry, creates no
\* batch, makes no network call and writes nothing to the store.
C1_FreshEntryReturned ==
    [][\A i \in Slots :
         (/\ Leaves(i, "getValue")
          /\ cardState[i].present
          /\ Age(cardState[i]) < getCardStateInvalidationTime)
         => /\ pc'[i] = "done"
            /\ returned'[i] = cardState[i]
            /\ batch'[i] = {}
            /\ networkCalls'[i] = 0
            /\ cacheWrites'[i] = 0
            /\ cache' = cache]_vars

C1_Witness ==
    \E i \in Slots :
      /\ Finished(i) /\ path[i] = "hit"
      /\ returned[i].state # EmptyState
      /\ returned[i].timeCached > 0
      /\ now > returned[i].timeCached

----------------------------------------------------------------------------
(* C2 *)

C2_BatchAsConfigured(i) ==
    LET p == personDetails[i]
        user == ~ContactOrGroup(p)
        has(n) == n \in Names(batch[i])
    IN /\ has("person") <=> (user /\ sections.organization)
       /\ has("directReports") <=> (user /\ sections.organization)
       /\ has("people") <=>
            (user /\ sections.organization /\ sections.showWorksWith)
       /\ has("messages") <=> (sections.mailMessages /\ p.mail # "")
       /\ has("files") <=> sections.files
       /\ Names(batch[i]) \subseteq batchKeys
       /\ isContactOrGroup[i] = ContactOrGroup(p)

\* C2: on a miss the batch holds exactly the sub-requests the configuration
\* and the classification enable, and the profile is fetched iff the entity
\* is no contact or group and the profile section is on.
C2_OnlyEnabledRequests ==
    /\ [](\A i \in Slots : pc[i] = "executeAll" => C2_BatchAsConfigured(i))
    /\ [][\A i \in Slots :
            /\ Leaves(i, "executeAll") =>
                 isContactOrGroup'[i] = isContactOrGroup[i]
            /\ Leaves(i, "merge") =>
                 (pc'[i] = "getProfile"
                    <=> (~isContactOrGroup[i] /\ sections.profile))
            /\ pc'[i] = "getProfile" => pc[i] \in {"merge", "getProfile"}]_vars

C2_Witness ==
    \E i \in Slots :
      /\ pc[i] = "executeAll"
      /\ cardState[i].present
      /\ ContactOrGroup(personDetails[i])
      /\ sections.organization /\ sections.showWorksWith /\ sections.profile
      /\ Names(batch[i]) = {"messages", "files"}

----------------------------------------------------------------------------
(* C3 *)

\* C3: from an empty store, no returned record and no entry of the store
\* ever holds a direct report whose accountEnabled is false.
C3_NoDisabledReports ==
    /\ \A i \in Slots : returned[i].present => NoDisabledReports(returned[i].state)
    /\ \A k \in Ids : cache[k].present => NoDisabledReports(cache[k].state)

C3_Witness ==
    \E i, j \in Slots :
      /\ Finished(i) /\ path[i] = "miss"
      /\ returned[i].state.directReports = Array(<<TRUE>>)
      /\ Finished(j) /\ path[j] = "hit"
      /\ returned[j].state.directReports = Array(<<TRUE>>)
      /\ cache[userId[i]].state.directReports = Array(<<TRUE>>)

----------------------------------------------------------------------------
(* C4 *)

\* C4: no invocation ever ends rejected, and every invocation that was
\* called resolves with a record, whatever threw on its way.
C4_NoErrorSurfaced ==
    /\ [](\A i \in Slots : pc[i] # "rejected")
    /\ \A i \in Slots :
         (pc[i] = "getValue") ~> (pc[i] = "done" /\ returned[i].present)

C4_Witness ==
    \E i \in Slots :
      /\ Finished(i)
      /\ threw[i] = {"executeAll", "getProfile"}
      /\ returned[i] = Entry(EmptyState, NoTime)

----------------------------------------------------------------------------
(* C5 *)

\* C5: when the profile fetch throws, data is left as the merge built it, so
\* the returned record has no profile and keeps every other field; only the
\* filter of the direct reports touches it afterwards.
C5_ProfileFailureKeepsRest ==
    /\ [](\A i \in Slots :
            (Finished(i) /\ "getProfile" \in threw[i])
            => returned[i].state.profile = Absent)
    /\ [][\A i \in Slots :
            /\ (Leaves(i, "getProfile") /\ "getProfile" \in threw'[i])
               => data'[i] = data[i]
            /\ ("getProfile" \in threw[i] /\ Leaves(i, "filter"))
               => /\ \A k \in StateKeys \ {"directReports"} :
                       data'[i][k] = data[i][k]
                  /\ data'[i].directReports.t = data[i].directReports.t
            /\ ("getProfile" \in threw[i] /\ Leaves(i, "putValue"))
               => data'[i] = data[i]
            /\ ("getProfile" \in threw[i] /\ Leaves(i, "return"))
               => returned'[i].state = data[i]]_vars

C5_Witness ==
    \E i \in Slots :
      /\ Finished(i)
      /\ "getProfile" \in threw[i]
      /\ returned[i].state.person = Object
      /\ returned[i].state.directReports = Array(<<TRUE>>)
      /\ returned[i].state.files # Absent
      /\ returned[i].state.profile = Absent

----------------------------------------------------------------------------
(* C6 *)

\* C6: on a miss the store is written once, as the last step before the
\* return and after the filter; the write puts the record that is returned
\* under the entity id and leaves every other key alone.
C6_WriteIsLastStep ==
    /\ [](\A i \in Slots :
            /\ pc[i] \in {"return", "done"} /\ path[i] = "miss"
                 => cacheWrites[i] = 1
            /\ ~(pc[i] \in {"return", "done"} /\ path[i] = "miss")
                 => cacheWrites[i] = 0)
    /\ [][/\ \A i \in Slots :
               /\ cacheWrites'[i] # cacheWrites[i]
                  => /\ pc[i] = "putValue" /\ pc'[i] = "return"
                     /\ cache' = [cache EXCEPT
                                    ![userId[i]] = Entry(data[i], now)]
                     /\ data'[i] = data[i]
               /\ pc[i] = "return"
                  => \/ pc'[i] = "return" /\ data'[i] = data[i]
                     \/ pc'[i] = "done" /\ returned'[i].state = data[i]
               /\ (pc'[i] = "putValue" /\ pc[i] # "putValue")
                  => pc[i] = "filter"
               /\ (pc'[i] = "filter" /\ pc[i] # "filter")
                  => pc[i] \in {"merge", "getProfile"}
               /\ (pc'[i] = "merge" /\ pc[i] # "merge")
                  => pc[i] = "executeAll"
          /\ cache' # cache
               => \E i \in Slots : cacheWrites'[i] # cacheWrites[i]]_vars

C6_Witness ==
    \E i \in Slots :
      /\ Finished(i) /\ path[i] = "miss"
      /\ isContactOrGroup[i]
      /\ cache[userId[i]].state = returned[i].state
      /\ returned[i].state # EmptyState
      /\ \E k \in Ids \ {userId[i]} :
           cache[k].present /\ cache[k].state # cache[userId[i]].state

----------------------------------------------------------------------------
(* C7 *)

HasValueField(content) == content.t \in {"valueArray", "valueNull"}
ValueField(content) ==
    IF content.t = "valueArray" THEN Array(content.v) ELSE Null
IsSuccess(entry) == entry # Absent /\ entry # ErrorBody

\* C7 as stated: a successful response is stored as its value field when it
\* has one, else as its content, and a failed sub-request gets no entry.
C7_SuccessfulResponsesOnly ==
    [][\A i \in Slots : \A k \in batchKeys :
         Leaves(i, "merge") =>
           LET e == response[i].entries[k] IN
           IF response[i].defined /\ IsSuccess(e)
             THEN data'[i][k] = (IF HasValueField(e) THEN ValueField(e) ELSE e)
             ELSE data'[i][k] = Absent]_vars

\* C7, amended: every entry of the map, failed or not, is stored: as its
\* value field when that field is truthy, else as its content; a name with
\* no entry in the map gets none in the record.
C7_EveryEntryStored ==
    [][\A i \in Slots : \A k \in batchKeys :
         Leaves(i, "merge") =>
           LET e == response[i].entries[k] IN
           IF response[i].defined /\ e # Absent
             THEN data'[i][k] =
                    (IF HasValueField(e) /\ ValueField(e) # Null
                       THEN ValueField(e) ELSE e)
             ELSE data'[i][k] = Absent]_vars

C7_Witness ==
    \E i \in Slots :
      /\ pc[i] \in {"getProfile", "filter"}
      /\ data[i].person = Object
      /\ data[i].directReports = Array(<<TRUE, FALSE>>)
      /\ data[i].messages \in {ValueNull, ErrorBody}

----------------------------------------------------------------------------
(* C8 *)

\* C8: on a miss the record starts empty whatever the stale entry holds, gets
\* keys only from the response map and the profile fetch, so a batch that
\* throws with no profile obtained overwrites the stale entry by an empty
\* record; a returned record never changes.
C8_FreshRecord ==
    [][\A i \in Slots :
         /\ (Leaves(i, "getValue") /\ pc'[i] = "executeAll")
            => data'[i] = EmptyState
         /\ Leaves(i, "merge")
            => \A k \in StateKeys :
                 data'[i][k] # Absent
                 => /\ response[i].defined /\ k \in batchKeys
                    /\ response[i].entries[k] # Absent
         /\ Leaves(i, "getProfile")
            => \A k \in batchKeys : data'[i][k] = data[i][k]
         /\ Leaves(i, "filter")
            => \A k \in StateKeys :
                 (data'[i][k] = Absent) <=> (data[i][k] = Absent)
         /\ (Leaves(i, "putValue") /\ "executeAll" \in threw[i]
                                   /\ data[i].profile = Absent)
            => cache'[userId[i]] = Entry(EmptyState, now)
         /\ Finished(i)
            => returned'[i] = returned[i] /\ pc'[i] = "done"]_vars

C8_Witness ==
    \E i \in Slots :
      /\ pc[i] = "done" /\ path[i] = "miss"
      /\ cardState[i].present /\ cardState[i].state # EmptyState
      /\ "executeAll" \in threw[i]
      /\ lastWriter[userId[i]] = i
      /\ cache[userId[i]].state = EmptyState
      /\ returned[i].state = EmptyState

----------------------------------------------------------------------------
(* C9 *)

\* C9: an invocation's locals change only at its own steps, the store
\* changes only by one invocation's write of its whole record, and when all
\* invocations are over the entry of an id is the record of the last writer.
C9_LastWriteWins ==
    /\ []((\A i \in Slots : pc[i] \in {"idle", "done"})
            => \A k \in Ids :
                 lastWriter[k] # 0
                 => cache[k].state = returned[lastWriter[k]].state)
    /\ [][/\ \A i \in Slots :
               (\/ data'[i] # data[i]
                \/ returned'[i] # returned[i]
                \/ response'[i] # response[i]) => pc'[i] # pc[i]
          /\ \A k \in Ids :
               cache'[k] # cache[k]
               => \E i \in Slots :
                    /\ pc[i] = "putValue" /\ pc'[i] = "return"
                    /\ userId[i] = k
                    /\ cache'[k].state = data[i]
                    /\ lastWriter'[k] = i]_vars

C9_Witness ==
    \E i, j \in Slots :
      /\ i # j /\ userId[i] = userId[j]
      /\ Finished(i) /\ Finished(j)
      /\ path[i] = "miss" /\ path[j] = "miss"
      /\ ~cardState[i].present /\ ~cardState[j].present
      /\ returned[i].state # returned[j].state
      /\ returned[i].state # EmptyState /\ returned[j].state # EmptyState
      /\ lastWriter[userId[i]] = j
      /\ cache[userId[i]].state = returned[j].state

----------------------------------------------------------------------------
(* C10 *)

Effects(i, most) ==
    /\ cacheReads[i] = 1
    /\ cacheWrites[i] \in 0..1
    /\ networkCalls[i] \in 0..most

\* C10 as stated: one read of the store, at most one write and at most five
\* network calls per invocation.
C10_AtMostFiveCalls == \A i \in Slots : Started(i) => Effects(i, 5)

\* C10, amended: one read, at most one write and at most six network calls
\* (five sub-requests and the profile fetch).
C10_AtMostSixCalls == \A i \in Slots : Started(i) => Effects(i, 6)

C10_Witness ==
    \E i \in Slots :
      /\ Finished(i)
      /\ cacheReads[i] = 1 /\ cacheWrites[i] = 1 /\ networkCalls[i] = 6

====
